---- MODULE Spec2Model ----
(***************************************************************************)
(* Model of app-check-invoices.py: header detection, table extraction and  *)
(* reconciliation of invoice spreadsheets against a consolidated sheet.     *)
(*                                                                         *)
(* Values.  A cell is one of                                               *)
(*   Txt(s)  a Python str, s the sequence of its characters;               *)
(*   Flt(v)  a float, v its value in units of 10^-Decimals;                *)
(*   NaN     pandas' missing value (float nan);                            *)
(* and None is Python's None.  Row and column indices are 0-based as in the *)
(* source; a sequence position is the index plus one.                       *)
(***************************************************************************)
EXTENDS Integers, Sequences, FiniteSets, TLC

VARIABLES
    pc,              \* position in the script / in read_and_standardize
    sheet,           \* df: the sheet read with header=None, dtype=str
    hdr,             \* what find_header_row_and_map returned (plus its col_map)
    mapped_cols,     \* read_and_standardize: canon -> index of the df2 column found
    result,          \* what read_and_standardize returns for the sheet
    consolidated_file,
    invoice_files,
    consolidated_df,
    input_df,
    merged,
    deviated_rows,
    total_deviated,
    file_idx,        \* the main loop's position in invoice_files
    outcomes         \* what the script has shown per invoice file

vars == << pc, sheet, hdr, mapped_cols, result, consolidated_file, invoice_files,
           consolidated_df, input_df, merged, deviated_rows, total_deviated,
           file_idx, outcomes >>

Txt(s) == [t |-> "str", s |-> s]
Flt(v) == [t |-> "float", v |-> v]
NaN == [t |-> "nan"]
None == [t |-> "None"]
\* a DataFrame: its rows in order
Table(rows) == [t |-> "DataFrame", rows |-> rows]

isna(x) == x = NaN

(***************************************************************************)
(* Characters                                                              *)
(***************************************************************************)
LowerAlpha == << "a","b","c","d","e","f","g","h","i","j","k","l","m",
                 "n","o","p","q","r","s","t","u","v","w","x","y","z" >>
UpperAlpha == << "A","B","C","D","E","F","G","H","I","J","K","L","M",
                 "N","O","P","Q","R","S","T","U","V","W","X","Y","Z" >>
DigitChars == << "0","1","2","3","4","5","6","7","8","9" >>

\* Stand-ins for characters with ord(c) >= 128; every other character is ASCII.
NonAsciiChars == { "U+516C", "U+53F8", "U+6709", "U+9650" }

IsLowerAlpha(c) == \E i \in 1..26 : LowerAlpha[i] = c
IsUpperAlpha(c) == \E i \in 1..26 : UpperAlpha[i] = c
IsDigit(c) == \E i \in 1..10 : DigitChars[i] = c
DigitVal(c) == (CHOOSE i \in 1..10 : DigitChars[i] = c) - 1

\* str.lower(), one character
lower_char(c) ==
    IF IsUpperAlpha(c) THEN LowerAlpha[CHOOSE i \in 1..26 : UpperAlpha[i] = c] ELSE c

\* str.lower()
lower(s) == [i \in 1..Len(s) |-> lower_char(s[i])]

IsAlnumLower(c) == IsLowerAlpha(c) \/ IsDigit(c)

\* str.strip(): leading and trailing whitespace removed
RECURSIVE lstrip(_)
lstrip(s) == IF s # << >> /\ Head(s) = " " THEN lstrip(Tail(s)) ELSE s

RECURSIVE rstrip(_)
rstrip(s) == IF s # << >> /\ s[Len(s)] = " " THEN rstrip(SubSeq(s, 1, Len(s) - 1)) ELSE s

strip(s) == rstrip(lstrip(s))

\* a in b, for str
IsSubstr(a, b) ==
    /\ Len(a) <= Len(b)
    /\ \E i \in 0..(Len(b) - Len(a)) : SubSeq(b, i + 1, i + Len(a)) = a

\* str.replace(ch, ''), one-character pattern
remove_char(s, ch) == SelectSeq(s, LAMBDA c : c # ch)

\* str(x) of a cell read with dtype=str: the text itself, or 'nan'
str(x) == IF x.t = "str" THEN x.s ELSE << "n","a","n" >>

(***************************************************************************)
(* COLUMN_ALIASES                                                          *)
(***************************************************************************)
Fields == << "Style No", "PO Nr", "Quantity", "Price", "Total" >>
NumFields == << "Quantity", "Price", "Total" >>
FieldSet == { Fields[i] : i \in 1..Len(Fields) }

COLUMN_ALIASES(canon) ==
    CASE canon = "Style No" -> <<
         <<"s","t","y","l","e"," ","n","o">>,
         <<"a","r","t","i","c","l","e"," ","n","o">>,
         <<"s","t","y","l","e"," ","n","u","m","b","e","r">>,
         <<"s","t","y","l","e","n","o">> >>
      [] canon = "PO Nr" -> <<
         <<"p","o"," ","n","r">>,
         <<"p","o"," ","n","o">>,
         <<"o","r","d","e","r"," ","n","o">>,
         <<"o","r","d","e","r"," ","n","u","m","b","e","r">>,
         <<"p","o"," ","n","u","m","b","e","r">>,
         <<"p","o"," ","n","o",".">>,
         <<"p","o","n","o">> >>
      [] canon = "Quantity" -> <<
         <<"q","t","y">>,
         <<"q","t","y","/","p","c">>,
         <<"q","u","a","n","t","i","t","y">>,
         <<"p","i","e","c","e","s">>,
         <<"p","c","s">>,
         <<"p","i","e","c","e","s"," ","(","p","c","s",")">>,
         <<"p","i","e","c","e","s"," "," "," ","(","p","c","s",")">> >>
      [] canon = "Price" -> <<
         <<"u","n","i","t"," ","p","r","i","c","e">>,
         <<"p","r","i","c","e">>,
         <<"p","r","i","c","e","/","u","s","d">>,
         <<"u","n","i","t","p","r","i","c","e">>,
         <<"p","r","i","c","e","/","u","s","d">> >>
      [] canon = "Total" -> <<
         <<"a","m","o","u","n","t">>,
         <<"t","o","t","a","l">>,
         <<"a","m","o","u","n","t"," ","(","u","s","d",")">>,
         <<"t","o","t","a","l"," ","a","m","o","u","n","t">>,
         <<"a","m","o","u","n","t"," ","u","s","d">>,
         <<"t","t","l">>,
         <<"s","u","m">> >>

(***************************************************************************)
(* clean_col, looks_like_header                                            *)
(***************************************************************************)
\* re.sub(r'[^a-z0-9]', '', col.lower()), after str() of a non-str
clean_col(col) == SelectSeq(lower(str(col)), IsAlnumLower)

\* clean_col(alias) of every alias, per field, in the list's order
CleanAliases ==
    [ canon \in FieldSet |->
        [ a \in 1..Len(COLUMN_ALIASES(canon)) |->
            clean_col(Txt(COLUMN_ALIASES(canon)[a])) ] ]

\* ' '.join(txts)
RECURSIVE join(_)
join(txts) ==
    IF txts = << >> THEN << >>
    ELSE IF Len(txts) = 1 THEN txts[1]
    ELSE txts[1] \o << " " >> \o join(Tail(txts))

CompanyWords == { <<"c","o","m","p","a","n","y">>, <<"l","t","d">>, <<"i","n","c">> }

MinJoinedLen == 10
MinUniqueCells == 4
MaxCompanyCells == 2

looks_like_header(row) ==
    LET txts == [ j \in 1..Len(row) |-> strip(str(row[j])) ]
        joined == lower(join(txts))
        n_ascii == Cardinality({ i \in 1..Len(joined) : joined[i] \notin NonAsciiChars })
        unique_cells == { txts[j] : j \in 1..Len(txts) } \ { << >> }
        n_company == Cardinality({ j \in 1..Len(txts) :
                        \E w \in CompanyWords : IsSubstr(w, lower(txts[j])) })
    IN  IF joined = << >> \/ Len(joined) < MinJoinedLen THEN FALSE
        \* ascii_ratio < 0.5, with ascii_ratio = n_ascii / max(1, len(joined))
        ELSE IF 2 * n_ascii < Len(joined) \/ Cardinality(unique_cells) < MinUniqueCells
             THEN FALSE
        ELSE IF n_company > MaxCompanyCells THEN FALSE
        ELSE TRUE

(***************************************************************************)
(* find_header_row_and_map                                                 *)
(***************************************************************************)
\* alias_clean == cell or alias_clean in cell or cell in alias_clean
TokenMatch(alias_clean, cell) ==
    alias_clean = cell \/ IsSubstr(alias_clean, cell) \/ IsSubstr(cell, alias_clean)

\* The inner loop over enumerate(cleaned): the 0-based index of the first
\* matching token, or -1.
FirstMatch(alias_clean, cleaned) ==
    LET hits == { j \in 1..Len(cleaned) : TokenMatch(alias_clean, cleaned[j]) }
    IN  IF hits = {} THEN -1
        ELSE (CHOOSE j \in hits : \A k \in hits : j <= k) - 1

\* The loop over aliases: the first alias (in list order) with a matching
\* cell decides; -1 when no alias matches.
RECURSIVE AliasScan(_, _, _)
AliasScan(aliases, a, cleaned) ==
    IF a > Len(aliases) THEN -1
    ELSE LET j == FirstMatch(aliases[a], cleaned)
         IN  IF j >= 0 THEN j ELSE AliasScan(aliases, a + 1, cleaned)

\* Variant: the loops swapped - the leftmost cell that matches any alias.
FieldColumnAnyAlias(canon, cleaned) ==
    LET hits == { j \in 1..Len(cleaned) :
                    \E a \in 1..Len(CleanAliases[canon]) :
                        TokenMatch(CleanAliases[canon][a], cleaned[j]) }
    IN  IF hits = {} THEN -1
        ELSE (CHOOSE j \in hits : \A k \in hits : j <= k) - 1

FieldColumn(canon, cleaned) == AliasScan(CleanAliases[canon], 1, cleaned)

\* col_map of one row: the fields that resolved, each with its column index
RowColMap(row) ==
    LET cleaned == [ j \in 1..Len(row) |-> clean_col(row[j]) ]
        cols == [ canon \in FieldSet |-> FieldColumn(canon, cleaned) ]
    IN  [ canon \in { c \in FieldSet : cols[c] >= 0 } |-> cols[canon] ]

\* the condition of lines 80-83
MappingAccepted(col_map) ==
    /\ "Style No" \in DOMAIN col_map
    /\ "PO Nr" \in DOMAIN col_map
    /\ ("Quantity" \in DOMAIN col_map \/ "Price" \in DOMAIN col_map
            \/ "Total" \in DOMAIN col_map)

max_rows == 40

\* Variant: every row of the sheet is scanned.
HeadRowsAll(df, n) == Len(df)

\* df.head(max_rows): the number of rows scanned
HeadRows(df, n) == IF Len(df) < n THEN Len(df) ELSE n

RowQualifies(row) == looks_like_header(row) /\ MappingAccepted(RowColMap(row))

RECURSIVE ScanRows(_, _, _)
ScanRows(df, idx, n) ==
    IF idx >= n THEN None
    ELSE IF RowQualifies(df[idx + 1])
         THEN LET col_map == RowColMap(df[idx + 1])
              IN  [ t |-> "hdr", idx |-> idx, col_map |-> col_map,
                    mapped |-> [ canon \in DOMAIN col_map |-> df[idx + 1][col_map[canon] + 1] ] ]
         ELSE ScanRows(df, idx + 1, n)

\* Returns (idx, mapped), or (None, None) modelled as None; col_map is kept
\* beside them to state which column detection selected.
find_header_row_and_map(df) == ScanRows(df, 0, HeadRows(df, max_rows))

(***************************************************************************)
(* Numbers: float(str(val).replace(',', '').replace(' ', ''))              *)
(***************************************************************************)
\* Resolution of the model's floats: a value v stands for v * 10^-Decimals.
Decimals == 7

Unit == 10 ^ Decimals

RECURSIVE DigitsValue(_)
DigitsValue(ds) ==
    IF ds = << >> THEN 0
    ELSE 10 * DigitsValue(SubSeq(ds, 1, Len(ds) - 1)) + DigitVal(ds[Len(ds)])

\* The value of the digits after the point, in units.
FractionValue(ds) ==
    LET kept == [ i \in 1..Decimals |-> IF i <= Len(ds) THEN ds[i] ELSE "0" ]
    IN  DigitsValue(kept)

\* digits [ '.' digits ], with at least one digit: its value in units; None
\* (a ValueError) for anything else.
ParseUnsigned(s) ==
    LET dots == { i \in 1..Len(s) : s[i] = "." }
        others == { i \in 1..Len(s) : s[i] # "." /\ ~IsDigit(s[i]) }
    IN  IF others # {} \/ Cardinality(dots) > 1 \/ Len(s) = Cardinality(dots)
        THEN None
        ELSE IF dots = {} THEN Flt(DigitsValue(s) * Unit)
        ELSE LET d == CHOOSE i \in dots : TRUE
             IN  Flt(DigitsValue(SubSeq(s, 1, d - 1)) * Unit
                     + FractionValue(SubSeq(s, d + 1, Len(s))))

\* Python's float(s) on plain decimal notation and on 'nan'; the other
\* spellings float() accepts (exponents, 'inf', underscores) are not drawn
\* by any input set of this model.
float(s) ==
    IF lower(s) = << "n","a","n" >> THEN NaN
    ELSE IF s # << >> /\ s[1] = "-"
         THEN LET u == ParseUnsigned(Tail(s))
              IN  IF u = None THEN None ELSE Flt(0 - u.v)
    ELSE IF s # << >> /\ s[1] = "+" THEN ParseUnsigned(Tail(s))
    ELSE ParseUnsigned(s)

StripSeparators(s) == remove_char(remove_char(s, ","), " ")

is_numeric_or_empty(val) ==
    IF isna(val) THEN TRUE
    ELSE IF val.t = "float" THEN TRUE
    ELSE float(StripSeparators(val.s)) # None

\* .astype(str).str.replace(',', '').str.replace(' ', '').replace('', nan)
\* .astype(float) on one cell.  A float's repr parses back to the same float.
to_float(val) ==
    IF val.t = "float" THEN val
    ELSE LET txt == StripSeparators(str(val))
         IN  IF txt = << >> THEN NaN ELSE float(txt)

(***************************************************************************)
(* pd.read_excel(file, sheet_name, header=hdr_row, dtype=str)              *)
(***************************************************************************)
RECURSIVE IntStr(_)
IntStr(n) == IF n < 10 THEN << DigitChars[n + 1] >>
             ELSE IntStr(n \div 10) \o << DigitChars[(n % 10) + 1] >>

\* A missing header cell is labelled 'Unnamed: j'.
FillUnnamed(row) ==
    [ j \in 1..Len(row) |->
        IF isna(row[j])
        THEN Txt(<< "U","n","n","a","m","e","d",":"," " >> \o IntStr(j - 1))
        ELSE row[j] ]

\* The k-th repetition of a label becomes 'label.k'.
DedupNames(labels) ==
    [ j \in 1..Len(labels) |->
        LET k == Cardinality({ i \in 1..(j - 1) : labels[i] = labels[j] })
        IN  IF k = 0 THEN labels[j]
            ELSE Txt(labels[j].s \o << "." >> \o IntStr(k)) ]

\* df2: the labels of row hdr_row, and the rows below it under a RangeIndex.
ReadWithHeader(df, hdr_row) ==
    [ columns |-> DedupNames(FillUnnamed(df[hdr_row + 1])),
      rows |-> [ r \in 1..(Len(df) - hdr_row - 1) |->
                    [ i |-> r - 1, c |-> df[hdr_row + 1 + r] ] ] ]

(***************************************************************************)
(* read_and_standardize                                                    *)
(***************************************************************************)
\* Lines 117-121: the first df2 column, left to right, whose cleaned label
\* matches the cleaned detected label; its 0-based index, or -1 (None).
FoundColumn(alias, columns) ==
    FirstMatch(clean_col(alias), [ j \in 1..Len(columns) |-> clean_col(columns[j]) ])

\* `if found:` - a label is truthy unless it is the empty string
Truthy(label) == label # Txt(<< >>)

\* Lines 113-123: canon -> the df2 column (by index) its label resolves to.
ResolveColumns(mapped, columns) ==
    LET found == [ canon \in DOMAIN mapped |-> FoundColumn(mapped[canon], columns) ]
    IN  [ canon \in { c \in DOMAIN mapped :
                        found[c] >= 0 /\ Truthy(columns[found[c] + 1]) } |-> found[canon] ]

\* num_cols, as column indices
NumCols(mcols) == { mcols[x] : x \in { "Quantity", "Price", "Total" } \cap DOMAIN mcols }

\* Lines 126-129: rows in which every mapped numeric cell is numeric or
\* empty, each keeping its index label.
FilterNumeric(rows, mcols) ==
    IF NumCols(mcols) = {} THEN rows
    ELSE SelectSeq(rows, LAMBDA row : \A j \in NumCols(mcols) : is_numeric_or_empty(row.c[j + 1]))

\* Lines 131-142, on one row: the mapped numeric columns converted.
CoerceRow(row, mcols) ==
    [ i |-> row.i,
      c |-> [ j \in 1..Len(row.c) |->
                IF (j - 1) \in NumCols(mcols) THEN to_float(row.c[j]) ELSE row.c[j] ] ]

\* Lines 143-149: the five canonical columns; an unmapped numeric field is
\* the all-NaN column added at line 142.
ProjectRow(row, mcols) ==
    [ i |-> row.i,
      r |-> [ x \in FieldSet |->
                IF x \in DOMAIN mcols THEN row.c[mcols[x] + 1] ELSE NaN ] ]

\* Lines 126-149: `result` before truncate_table, each row under the index
\* label it had in df2.
Projected(df2, mcols) ==
    LET kept == FilterNumeric(df2.rows, mcols)
    IN  [ p \in 1..Len(kept) |-> ProjectRow(CoerceRow(kept[p], mcols), mcols) ]

\* `not v`: the empty string and 0.0 are falsy; nan is truthy
Falsy(v) == v = Txt(<< >>) \/ v = Flt(0)

KeyMissing(r) ==
    Falsy(r["Style No"]) \/ isna(r["Style No"]) \/ Falsy(r["PO Nr"]) \/ isna(r["PO Nr"])

\* stop_idx: len(df), or the index LABEL of the first row with a missing key
StopIdx(df) ==
    LET bad == { p \in 1..Len(df) : KeyMissing(df[p].r) }
    IN  IF bad = {} THEN Len(df)
        ELSE df[CHOOSE p \in bad : \A q \in bad : p <= q].i

\* df.iloc[:stop_idx]: the first stop_idx rows by POSITION
ILocHead(df, n) == SubSeq(df, 1, IF n < Len(df) THEN n ELSE Len(df))

truncate_table(df) == ILocHead(df, StopIdx(df))

\* Lines 126-151 for one sheet whose mandatory columns resolved.
Standardize(df2, mcols) == Table(truncate_table(Projected(df2, mcols)))

MandatoryResolved(mcols) == "Style No" \in DOMAIN mcols /\ "PO Nr" \in DOMAIN mcols

\* One iteration of the loop over sheets: the table, or None when the sheet
\* is skipped (no header row, or the warning of line 153).
ReadSheet(df) ==
    LET h == find_header_row_and_map(df)
    IN  IF h = None \/ ~MandatoryResolved(h.mapped) THEN None
        ELSE LET df2 == ReadWithHeader(df, h.idx)
                 mcols == ResolveColumns(h.mapped, df2.columns)
             IN  IF MandatoryResolved(mcols) THEN Standardize(df2, mcols) ELSE None

\* The first sheet that yields a table decides; None when none does.
RECURSIVE read_and_standardize(_)
read_and_standardize(file) ==
    IF file = << >> THEN None
    ELSE LET res == ReadSheet(Head(file))
         IN  IF res # None THEN res ELSE read_and_standardize(Tail(file))

(***************************************************************************)
(* Reconciliation: lines 185-214                                           *)
(***************************************************************************)
\* The rows of a canonical table as merge sees them (the index plays no part).
Records(df) == [ p \in 1..Len(df.rows) |-> df.rows[p].r ]

\* The row of a left join with no match on the right: every right column NaN.
NoMatch == [ x \in FieldSet |-> NaN ]

MergedRow(l, r) ==
    ("Style No" :> l["Style No"]) @@ ("PO Nr" :> l["PO Nr"])
    @@ ("Quantity_input" :> l["Quantity"]) @@ ("Price_input" :> l["Price"])
    @@ ("Total_input" :> l["Total"])
    @@ ("Quantity_consolidated" :> r["Quantity"]) @@ ("Price_consolidated" :> r["Price"])
    @@ ("Total_consolidated" :> r["Total"])

\* on=["Style No", "PO Nr"]
SameKey(l, r) == l["Style No"] = r["Style No"] /\ l["PO Nr"] = r["PO Nr"]

\* Variant: how="inner" - a left row without a match is dropped.
JoinOneInner(l, right) ==
    LET matches == SelectSeq(right, LAMBDA r : SameKey(l, r))
    IN  [ k \in 1..Len(matches) |-> MergedRow(l, matches[k]) ]

\* how="left": the right rows matching one left row, in the right's order;
\* a left row without a match is kept, once.
JoinOne(l, right) ==
    LET matches == SelectSeq(right, LAMBDA r : SameKey(l, r))
    IN  IF matches = << >> THEN << MergedRow(l, NoMatch) >>
        ELSE [ k \in 1..Len(matches) |-> MergedRow(l, matches[k]) ]

\* input_df.merge(consolidated_df, on=..., how="left", suffixes=...)
RECURSIVE merge(_, _)
merge(left, right) ==
    IF left = << >> THEN << >>
    ELSE JoinOne(Head(left), right) \o merge(Tail(left), right)

\* float subtraction: nan when either side is nan
Minus(a, b) == IF a.t = "float" /\ b.t = "float" THEN Flt(a.v - b.v) ELSE NaN

\* Lines 191-200: the difference, then NaN wherever the consolidated value is
\* missing.
Diff(m, in_col, ref_col) ==
    IF isna(m[ref_col]) THEN NaN ELSE Minus(m[in_col], m[ref_col])

WithDiffs(m) ==
    m @@ ("Quantity_diff" :> Diff(m, "Quantity_input", "Quantity_consolidated"))
      @@ ("Price_diff" :> Diff(m, "Price_input", "Price_consolidated"))
      @@ ("Total_diff" :> Diff(m, "Total_input", "Total_consolidated"))

\* 0.01, in units
Tolerance == Unit \div 100

Abs(v) == IF v < 0 THEN 0 - v ELSE v

\* Variant: >= 0.01
ReachesTolerance(d) == d.t = "float" /\ Abs(d.v) >= Tolerance

\* series.abs() > 0.01, on one value: False for nan
ExceedsTolerance(d) == d.t = "float" /\ Abs(d.v) > Tolerance

\* Lines 203-210
deviation_mask(m) ==
    \/ isna(m["Quantity_consolidated"])
    \/ isna(m["Price_consolidated"])
    \/ isna(m["Total_consolidated"])
    \/ ExceedsTolerance(m["Quantity_diff"])
    \/ ExceedsTolerance(m["Price_diff"])
    \/ ExceedsTolerance(m["Total_diff"])

\* series.dropna().sum()
RECURSIVE SumNotNa(_)
SumNotNa(values) ==
    IF values = << >> THEN 0
    ELSE (IF isna(Head(values)) THEN 0 ELSE Head(values).v) + SumNotNa(Tail(values))

\* Variant: the absolute differences summed.
TotalDeviatedAbs(rows) ==
    IF rows = << >> THEN Flt(0)
    ELSE Flt(SumNotNa([ p \in 1..Len(rows) |->
                IF isna(rows[p]["Total_diff"]) THEN NaN
                ELSE Flt(Abs(rows[p]["Total_diff"].v)) ]))

\* Line 214
TotalDeviated(rows) ==
    IF rows = << >> THEN Flt(0)
    ELSE Flt(SumNotNa([ p \in 1..Len(rows) |-> rows[p]["Total_diff"] ]))

\* Lines 185-200: merged, with its three diff columns.
Merged(input, consolidated) ==
    LET joined == merge(Records(input), Records(consolidated))
    IN  [ p \in 1..Len(joined) |-> WithDiffs(joined[p]) ]

\* Line 211: merged[deviation_mask]
Deviated(rows) == SelectSeq(rows, deviation_mask)

(***************************************************************************)
(* read_and_standardize on one sheet, step by step                         *)
(***************************************************************************)
Idle == [ t |-> "idle" ]

\* line 110
Detect ==
    /\ pc = "detect"
    /\ hdr' = find_header_row_and_map(sheet)
    /\ IF hdr' = None \/ ~MandatoryResolved(hdr'.mapped)
       THEN pc' = "done" /\ result' = None
       ELSE pc' = "resolve" /\ result' = result
    /\ UNCHANGED << sheet, mapped_cols, consolidated_file, invoice_files, consolidated_df,
                    input_df, merged, deviated_rows, total_deviated, file_idx, outcomes >>

\* lines 112-123
Resolve ==
    /\ pc = "resolve"
    /\ mapped_cols' = ResolveColumns(hdr.mapped, ReadWithHeader(sheet, hdr.idx).columns)
    /\ pc' = "extract"
    /\ UNCHANGED << sheet, hdr, result, consolidated_file, invoice_files, consolidated_df,
                    input_df, merged, deviated_rows, total_deviated, file_idx, outcomes >>

\* lines 124-153
Extract ==
    /\ pc = "extract"
    /\ result' = IF MandatoryResolved(mapped_cols)
                 THEN Standardize(ReadWithHeader(sheet, hdr.idx), mapped_cols)
                 ELSE None
    /\ pc' = "done"
    /\ UNCHANGED << sheet, hdr, mapped_cols, consolidated_file, invoice_files,
                    consolidated_df, input_df, merged, deviated_rows, total_deviated,
                    file_idx, outcomes >>

NextSheet == Detect \/ Resolve \/ Extract

InitRest ==
    /\ pc = "detect"
    /\ hdr = Idle
    /\ mapped_cols = Idle
    /\ result = Idle
    /\ consolidated_file = Idle
    /\ invoice_files = Idle
    /\ consolidated_df = Idle
    /\ input_df = Idle
    /\ merged = Idle
    /\ deviated_rows = Idle
    /\ total_deviated = Idle
    /\ file_idx = 0
    /\ outcomes = << >>

(***************************************************************************)
(* Header rows: one candidate row of HeaderCols cells drawn from LabelPool  *)
(***************************************************************************)
LabelPool ==
    { Txt(<< "S","t","y","l","e"," ","N","o" >>),
      Txt(<< "P","O"," ","N","r" >>),
      Txt(<< "Q","t","y" >>),
      Txt(<< "Q","u","a","n","t","i","t","y" >>),
      Txt(<< "T","o","t","a","l" >>),
      Txt(<< "T","o","t","a","l"," ","Q","t","y" >>),
      Txt(<< "-" >>),
      NaN }

HeaderCols == 4

\* Rows of HeaderCols arbitrary labels, and rows that start with the two key
\* labels followed by HeaderCols - 1 arbitrary labels.
HeaderRows ==
    [ 1..HeaderCols -> LabelPool ]
    \cup { << Txt(<< "S","t","y","l","e"," ","N","o" >>), Txt(<< "P","O"," ","N","r" >>) >> \o tail :
             tail \in [ 1..(HeaderCols - 1) -> LabelPool ] }

InitHeader ==
    /\ sheet \in { << row >> : row \in HeaderRows }
    /\ InitRest

SpecHeader == InitHeader /\ [][NextSheet]_vars

(***************************************************************************)
(* Properties of header detection (SpecHeader)                             *)
(***************************************************************************)
HeaderAccepted == pc # "detect" /\ hdr # None

\* The row find_header_row_and_map accepted, and its cleaned tokens.
HeaderRow == sheet[hdr.idx + 1]
HeaderTokens == [ j \in 1..Len(HeaderRow) |-> clean_col(HeaderRow[j]) ]

TokQty == << "q","t","y" >>
TokQuantity == << "q","u","a","n","t","i","t","y" >>

\* The 0-based columns of the accepted row whose token is tok.
ColumnsWithToken(tok) == { j \in 0..(Len(HeaderRow) - 1) : HeaderTokens[j + 1] = tok }

HasQtyAndQuantity ==
    HeaderAccepted /\ ColumnsWithToken(TokQty) # {} /\ ColumnsWithToken(TokQuantity) # {}

\* The texts of a raw row's non-missing cells, stripped, the empty one left out.
DistinctTexts(row) ==
    { strip(row[j].s) : j \in { k \in 1..Len(row) : row[k].t = "str" } } \ { << >> }

\* C5 as stated: whenever the accepted header row holds a cell with token
\* 'qty' and another with token 'quantity', among arbitrary other cells,
\* Quantity is mapped to the column of the (leftmost) 'qty' cell.
C5_QtyCellWins ==
    HasQtyAndQuantity =>
        /\ "Quantity" \in DOMAIN hdr.col_map
        /\ \A j \in ColumnsWithToken(TokQty) : hdr.col_map["Quantity"] <= j
        /\ hdr.col_map["Quantity"] \in ColumnsWithToken(TokQty)

\* C5 amended: with a 'qty' cell and a 'quantity' cell in the accepted row,
\* Quantity is mapped to the leftmost cell whose token equals 'qty', contains
\* 'qty' or is contained in 'qty' (the empty token included); that is never
\* the 'quantity' cell, and it is the leftmost 'qty' cell whenever no cell
\* further left has such a token.
C5_AliasPriority ==
    HasQtyAndQuantity =>
        /\ "Quantity" \in DOMAIN hdr.col_map
        /\ LET q == hdr.col_map["Quantity"]
               related == { j \in 0..(Len(HeaderRow) - 1) :
                              \/ HeaderTokens[j + 1] = TokQty
                              \/ IsSubstr(TokQty, HeaderTokens[j + 1])
                              \/ IsSubstr(HeaderTokens[j + 1], TokQty) }
           IN  /\ q \in related
               /\ \A j \in related : q <= j
               /\ q \notin ColumnsWithToken(TokQuantity)
               /\ (\A j \in related : \E k \in ColumnsWithToken(TokQty) : k <= j)
                      => q \in ColumnsWithToken(TokQty)

\* C5's case with 'quantity' left of 'qty': the later 'qty' cell is chosen.
C5_Witness ==
    /\ HasQtyAndQuantity
    /\ \E j \in ColumnsWithToken(TokQuantity) : \A k \in ColumnsWithToken(TokQty) : j < k
    /\ hdr.col_map["Quantity"] \in ColumnsWithToken(TokQty)

\* C6: a row with fewer than 4 distinct non-empty cell texts, however many
\* missing cells it also holds, is never accepted as the header.
C6_FewDistinctNeverHeader ==
    HeaderAccepted => Cardinality(DistinctTexts(HeaderRow)) >= MinUniqueCells

\* C9: once the header labels are re-resolved against the labels of df2,
\* every field is read from the column that detection selected for it.
C9_SameColumns ==
    (HeaderAccepted /\ pc \in { "extract", "done" }) =>
        \A canon \in DOMAIN hdr.col_map :
            canon \in DOMAIN mapped_cols /\ mapped_cols[canon] = hdr.col_map[canon]

(***************************************************************************)
(* The scan window (SpecScan): blank rows, then a few rows of other kinds   *)
(***************************************************************************)
BlankRow == << NaN, NaN, NaN, NaN >>

ScanRowPool ==
    { \* qualifies as header
      << Txt(<< "S","t","y","l","e"," ","N","o" >>), Txt(<< "P","O"," ","N","r" >>),
         Txt(<< "Q","t","y" >>), Txt(<< "A","m","o","u","n","t" >>) >>,
      \* looks like a header, maps no mandatory field
      << Txt(<< "I","n","v","o","i","c","e" >>), Txt(<< "D","a","t","e" >>),
         Txt(<< "C","u","s","t","o","m","e","r" >>), Txt(<< "A","d","d","r","e","s","s" >>) >>,
      \* maps every field, does not look like a header (2 distinct texts)
      << Txt(<< "S","t","y","l","e"," ","N","o" >>), Txt(<< "P","O"," ","N","r" >>),
         Txt(<< "S","t","y","l","e"," ","N","o" >>), Txt(<< "P","O"," ","N","r" >>) >> }

\* Most blank rows above the other rows, and most other rows.
MaxPad == 41
MaxTail == 2

Blanks(n) == [ i \in 1..n |-> BlankRow ]

InitScan ==
    /\ sheet \in { Blanks(n) \o tail :
                     n \in 0..MaxPad,
                     tail \in UNION { [ 1..k -> ScanRowPool ] : k \in 0..MaxTail } }
    /\ InitRest

SpecScan == InitScan /\ [][NextSheet]_vars

\* The indices of the window, and those of its rows that qualify.
Window == 0..((IF Len(sheet) < max_rows THEN Len(sheet) ELSE max_rows) - 1)
Qualifying == { i \in Window : RowQualifies(sheet[i + 1]) }

\* C4: find_header_row_and_map returns the smallest index of the window
\* 0 <= i < min(40, rowCount) whose row passes looks_like_header and resolves
\* Style No, PO Nr and one of Quantity/Price/Total, and returns (None, None)
\* exactly when the window holds no such row; rows at index 40 and beyond
\* play no part.
C4_FirstInWindow ==
    pc # "detect" =>
        /\ (hdr = None) <=> (Qualifying = {})
        /\ hdr # None => (hdr.idx \in Qualifying /\ \A i \in Qualifying : hdr.idx <= i)

\* A qualifying row sits at index 40, none before it: nothing is returned.
C4_Witness ==
    /\ pc = "done"
    /\ Len(sheet) > max_rows
    /\ RowQualifies(sheet[max_rows + 1])
    /\ Qualifying = {}
    /\ hdr = None

(***************************************************************************)
(* Extraction (SpecExtract): a fixed header row above a few data rows       *)
(***************************************************************************)
ExtractHeader ==
    << Txt(<< "S","t","y","l","e"," ","N","o" >>), Txt(<< "P","O"," ","N","r" >>),
       Txt(<< "Q","t","y" >>), Txt(<< "A","m","o","u","n","t" >>) >>

DataRowPool ==
    { \* two data rows, the second with a separator and an empty amount
      << Txt(<< "A","1" >>), Txt(<< "P","1" >>), Txt(<< "1","0" >>), Txt(<< "2",".","5" >>) >>,
      << Txt(<< "A","2" >>), Txt(<< "P","1" >>), Txt(<< "1",",","0" >>), NaN >>,
      \* text in a numeric column, keys present
      << Txt(<< "A","1" >>), Txt(<< "P","1" >>), Txt(<< "n","/","a" >>), Txt(<< "2",".","5" >>) >>,
      \* a subtotal line: text in a numeric column, keys missing
      << NaN, NaN, Txt(<< "T","o","t","a","l" >>), Txt(<< "1","2",".","5" >>) >>,
      \* an empty line
      << NaN, NaN, NaN, NaN >>,
      \* a note below the data: PO Nr missing
      << Txt(<< "R","e","m","a","r","k","s" >>), NaN, NaN, NaN >> }

MaxDataRows == 3

InitExtract ==
    /\ sheet \in { << ExtractHeader >> \o rows :
                     rows \in UNION { [ 1..k -> DataRowPool ] : k \in 0..MaxDataRows } }
    /\ InitRest

SpecExtract == InitExtract /\ [][NextSheet]_vars

\* `result` as it was handed to truncate_table.
PreTruncation == Projected(ReadWithHeader(sheet, hdr.idx), mapped_cols)

\* C1: the table read_and_standardize returns holds no row with an empty or
\* missing Style No or PO Nr, and no row that lies at or after the first such
\* row of the filtered, pre-truncation data - also when the non-numeric row
\* filter dropped rows above that row.
C1_TruncationInvariant ==
    (pc = "done" /\ hdr # None /\ result # None) =>
        \A p \in 1..Len(result.rows) :
            /\ ~KeyMissing(result.rows[p].r)
            /\ \A q \in { b \in 1..Len(PreTruncation) : KeyMissing(PreTruncation[b].r) } :
                   \E k \in 1..(q - 1) : PreTruncation[k] = result.rows[p]

(***************************************************************************)
(* Reconciliation of two canonical tables (SpecReconcile)                  *)
(***************************************************************************)
\* Lines 185-214 for one input table.
Reconcile ==
    /\ pc = "reconcile"
    /\ merged' = Merged(input_df, consolidated_df)
    /\ deviated_rows' = Deviated(merged')
    /\ total_deviated' = TotalDeviated(deviated_rows')
    /\ pc' = "done"
    /\ UNCHANGED << sheet, hdr, mapped_cols, result, consolidated_file, invoice_files,
                    consolidated_df, input_df, file_idx, outcomes >>

NextReconcile == Reconcile

KeyPool == { << Txt(<< "A","1" >>), Txt(<< "P","1" >>) >>,
             << Txt(<< "A","1" >>), Txt(<< "P","2" >>) >> }

\* Values around the tolerance: 0, exactly 0.01, and the next value above it.
AtTol == Flt(Tolerance)
OverTol == Flt(Tolerance + 1)
Zero == Flt(0)

\* (Quantity, Price, Total) of an input row: at most one field off zero.
InputValues ==
    { << Zero, Zero, Zero >>,
      << AtTol, Zero, Zero >>, << OverTol, Zero, Zero >>, << NaN, Zero, Zero >>,
      << Zero, AtTol, Zero >>, << Zero, OverTol, Zero >>, << Zero, NaN, Zero >>,
      << Zero, Zero, AtTol >>, << Zero, Zero, OverTol >>, << Zero, Zero, NaN >> }

\* (Quantity, Price, Total) of a consolidated row.
ConsolidatedValues ==
    { << Zero, Zero, Zero >>, << NaN, Zero, Zero >>, << Zero, AtTol, OverTol >> }

CanonRow(key, v) ==
    ("Style No" :> key[1]) @@ ("PO Nr" :> key[2])
    @@ ("Quantity" :> v[1]) @@ ("Price" :> v[2]) @@ ("Total" :> v[3])

\* Canonical tables of at most n rows, as read_and_standardize returns them.
Tables(values, n) ==
    UNION { { Table([ p \in 1..k |-> [ i |-> p - 1, r |-> CanonRow(rows[p][1], rows[p][2]) ] ]) :
                rows \in [ 1..k -> KeyPool \X values ] } : k \in 0..n }

MaxInputRows == 2
MaxConsolidatedRows == 1

InitReconcile ==
    /\ pc = "reconcile"
    /\ input_df \in Tables(InputValues, MaxInputRows)
    /\ consolidated_df \in Tables(ConsolidatedValues, MaxConsolidatedRows)
    /\ sheet = Idle
    /\ hdr = Idle
    /\ mapped_cols = Idle
    /\ result = Idle
    /\ consolidated_file = Idle
    /\ invoice_files = Idle
    /\ merged = Idle
    /\ deviated_rows = Idle
    /\ total_deviated = Idle
    /\ file_idx = 0
    /\ outcomes = << >>

SpecReconcile == InitReconcile /\ [][NextReconcile]_vars

(***************************************************************************)
(* Properties of the reconciliation (SpecReconcile)                        *)
(***************************************************************************)
NumFieldSet == { NumFields[i] : i \in 1..Len(NumFields) }

InputCol(x) ==
    CASE x = "Quantity" -> "Quantity_input" [] x = "Price" -> "Price_input"
      [] x = "Total" -> "Total_input"
ConsolidatedCol(x) ==
    CASE x = "Quantity" -> "Quantity_consolidated" [] x = "Price" -> "Price_consolidated"
      [] x = "Total" -> "Total_consolidated"
DiffCol(x) ==
    CASE x = "Quantity" -> "Quantity_diff" [] x = "Price" -> "Price_diff"
      [] x = "Total" -> "Total_diff"

Reported(m) == \E q \in 1..Len(deviated_rows) : deviated_rows[q] = m

\* The joined row m carries the input row l.
FromInput(m, l) ==
    /\ m["Style No"] = l["Style No"] /\ m["PO Nr"] = l["PO Nr"]
    /\ \A x \in NumFieldSet : m[InputCol(x)] = l[x]

HasReference(l) ==
    \E p \in 1..Len(consolidated_df.rows) : SameKey(l, consolidated_df.rows[p].r)

\* C2: an input row whose key has no row in the consolidated table is in the
\* joined result exactly once (as often as it is in the input), is reported,
\* and has its three diffs and reference values missing; no input row is
\* dropped from the join.
C2_MissingReference ==
    pc = "done" =>
        \A p \in 1..Len(input_df.rows) :
            LET l == input_df.rows[p].r
                copies == { q \in 1..Len(input_df.rows) : input_df.rows[q].r = l }
                joined == { q \in 1..Len(merged) : FromInput(merged[q], l) }
            IN  /\ Cardinality(joined) >= Cardinality(copies)
                /\ ~HasReference(l) =>
                      /\ Cardinality(joined) = Cardinality(copies)
                      /\ \A q \in joined :
                            /\ Reported(merged[q])
                            /\ \A x \in NumFieldSet :
                                  isna(merged[q][DiffCol(x)])
                                  /\ isna(merged[q][ConsolidatedCol(x)])

\* An input row equal in every value to a consolidated row of another key.
C2_Witness ==
    /\ pc = "done"
    /\ \E p \in 1..Len(input_df.rows) : \E q \in 1..Len(consolidated_df.rows) :
          /\ ~HasReference(input_df.rows[p].r)
          /\ \A x \in NumFieldSet :
                input_df.rows[p].r[x] = consolidated_df.rows[q].r[x]
                /\ ~isna(input_df.rows[p].r[x])
          /\ \E k \in 1..Len(merged) :
                FromInput(merged[k], input_df.rows[p].r) /\ Reported(merged[k])

\* The deviation predicate in terms of the two sides' values.
BeyondTolerance(m, x) ==
    /\ m[InputCol(x)].t = "float"
    /\ m[ConsolidatedCol(x)].t = "float"
    /\ \/ m[InputCol(x)].v - m[ConsolidatedCol(x)].v > Tolerance
       \/ m[ConsolidatedCol(x)].v - m[InputCol(x)].v > Tolerance

Deviates(m) ==
    \E x \in NumFieldSet : isna(m[ConsolidatedCol(x)]) \/ BeyondTolerance(m, x)

\* C3: a joined row is reported if and only if a consolidated Quantity, Price
\* or Total is missing or |input - consolidated| > 0.01 for one of the three
\* fields; only joined rows are reported.
C3_DeviationPredicate ==
    pc = "done" =>
        /\ \A p \in 1..Len(merged) : Reported(merged[p]) <=> Deviates(merged[p])
        /\ \A q \in 1..Len(deviated_rows) : \E p \in 1..Len(merged) : merged[p] = deviated_rows[q]

\* A joined row whose only difference is exactly 0.01, in one field, and
\* which is not reported.
C3_Witness ==
    /\ pc = "done"
    /\ \E p \in 1..Len(merged) : \E x \in NumFieldSet :
          /\ merged[p][DiffCol(x)] \in { Flt(Tolerance), Flt(0 - Tolerance) }
          /\ \A y \in NumFieldSet \ { x } : merged[p][DiffCol(y)] = Flt(0)
          /\ ~Reported(merged[p])

RECURSIVE SumTotalDiff(_)
SumTotalDiff(positions) ==
    IF positions = {} THEN 0
    ELSE LET p == CHOOSE q \in positions : TRUE
         IN  merged[p]["Total_diff"].v + SumTotalDiff(positions \ { p })

\* C8: the total deviated amount is the sum of Total_diff over the deviating
\* rows whose Total_diff is not missing, and 0.0 when no row deviates.
C8_Aggregate ==
    pc = "done" =>
        /\ total_deviated =
              Flt(SumTotalDiff({ p \in 1..Len(merged) :
                      Deviates(merged[p]) /\ ~isna(merged[p]["Total_diff"]) }))
        /\ (\A p \in 1..Len(merged) : ~Deviates(merged[p])) => total_deviated = Flt(0)

\* A deviating row without Total_diff, one with a negative Total_diff, and a
\* total that is that negative amount.
C8_Witness ==
    /\ pc = "done"
    /\ \E p \in 1..Len(merged) : Deviates(merged[p]) /\ isna(merged[p]["Total_diff"])
    /\ \E p \in 1..Len(merged) :
          /\ Deviates(merged[p])
          /\ merged[p]["Total_diff"].t = "float"
          /\ merged[p]["Total_diff"].v < 0
          /\ total_deviated = merged[p]["Total_diff"]

\* C10: a joined row that is not reported has, for Quantity, Price and Total,
\* both values present and within 0.01 of each other.
C10_NoSilentMismatch ==
    pc = "done" =>
        \A p \in 1..Len(merged) :
            ~Reported(merged[p]) =>
                \A x \in NumFieldSet :
                    /\ merged[p][InputCol(x)].t = "float"
                    /\ merged[p][ConsolidatedCol(x)].t = "float"
                    /\ ~BeyondTolerance(merged[p], x)

(***************************************************************************)
(* The script: lines 173-236 (SpecBatch)                                   *)
(***************************************************************************)
JunkRow ==
    << Txt(<< "I","n","v","o","i","c","e" >>), Txt(<< "D","a","t","e" >>),
       Txt(<< "C","u","s","t","o","m","e","r" >>), Txt(<< "A","d","d","r","e","s","s" >>), NaN >>

BatchHeader ==
    << Txt(<< "S","t","y","l","e"," ","N","o" >>), Txt(<< "P","O"," ","N","r" >>),
       Txt(<< "Q","t","y" >>), Txt(<< "U","n","i","t"," ","P","r","i","c","e" >>),
       Txt(<< "A","m","o","u","n","t" >>) >>

\* a sheet with a header and two lines
SheetGood ==
    << BatchHeader,
       << Txt(<< "A","1" >>), Txt(<< "P","1" >>), Txt(<< "2" >>), Txt(<< "2",".","5" >>),
          Txt(<< "5" >>) >>,
       << Txt(<< "A","2" >>), Txt(<< "P","1" >>), Txt(<< "1",",","0" >>), Txt(<< "0",".","5" >>),
          Txt(<< "5",".","0" >>) >> >>

\* a title row above the header; one line differs in quantity and amount,
\* one has a key of its own
SheetDeviating ==
    << JunkRow, BatchHeader,
       << Txt(<< "A","1" >>), Txt(<< "P","1" >>), Txt(<< "3" >>), Txt(<< "2",".","5" >>),
          Txt(<< "7",".","5" >>) >>,
       << Txt(<< "A","1" >>), Txt(<< "P","2" >>), Txt(<< "2" >>), Txt(<< "2",".","5" >>),
          Txt(<< "5" >>) >> >>

\* no header row at all
SheetNoHeader ==
    << JunkRow,
       << Txt(<< "A","1" >>), Txt(<< "P","1" >>), Txt(<< "2" >>), Txt(<< "2",".","5" >>),
          Txt(<< "5" >>) >> >>

\* Files as lists of sheets.
FilePool == { << SheetGood >>, << SheetNoHeader, SheetDeviating >>, << SheetNoHeader >> }

ConsolidatedPool == { << SheetGood >>, << SheetNoHeader >> }

\* read_and_standardize of every file of the pools, computed once.
Standardized == [ f \in FilePool \cup ConsolidatedPool |-> read_and_standardize(f) ]

\* st.error of line 182
Undetected == [ t |-> "error" ]

\* lines 217-234: what is shown for a reconciled file
Report(rows, total) == [ t |-> "report", deviated_rows |-> rows, total_deviated |-> total ]

\* Variant: `break` - the loop is left at the first undetected file.
AfterUndetectedBreak(idx, n) == n

\* `continue`, line 183: the loop goes on with the next file
AfterUndetected(idx, n) == idx + 1

\* line 173-176
Start ==
    /\ pc = "start"
    /\ IF invoice_files = << >>
       THEN pc' = "done" /\ consolidated_df' = consolidated_df
       ELSE /\ consolidated_df' = Standardized[consolidated_file]
            /\ pc' = IF consolidated_df' = None THEN "done" ELSE "loop"
    /\ UNCHANGED << sheet, hdr, mapped_cols, result, consolidated_file, invoice_files,
                    input_df, merged, deviated_rows, total_deviated, file_idx, outcomes >>

\* One iteration of the loop of line 178.
ProcessFile ==
    /\ pc = "loop"
    /\ file_idx < Len(invoice_files)
    /\ input_df' = Standardized[invoice_files[file_idx + 1]]
    /\ IF input_df' = None
       THEN /\ outcomes' = Append(outcomes, Undetected)
            /\ file_idx' = AfterUndetected(file_idx, Len(invoice_files))
            /\ UNCHANGED << merged, deviated_rows, total_deviated >>
       ELSE /\ merged' = Merged(input_df', consolidated_df)
            /\ deviated_rows' = Deviated(merged')
            /\ total_deviated' = TotalDeviated(deviated_rows')
            /\ outcomes' = Append(outcomes, Report(deviated_rows', total_deviated'))
            /\ file_idx' = file_idx + 1
    /\ UNCHANGED << pc, sheet, hdr, mapped_cols, result, consolidated_file, invoice_files,
                    consolidated_df >>

\* The loop is exhausted and the script ends.
EndLoop ==
    /\ pc = "loop"
    /\ file_idx >= Len(invoice_files)
    /\ pc' = "done"
    /\ UNCHANGED << sheet, hdr, mapped_cols, result, consolidated_file, invoice_files,
                    consolidated_df, input_df, merged, deviated_rows, total_deviated,
                    file_idx, outcomes >>

NextBatch == Start \/ ProcessFile \/ EndLoop

MaxFiles == 3

InitBatch ==
    /\ pc = "start"
    /\ consolidated_file \in ConsolidatedPool
    /\ invoice_files \in UNION { [ 1..k -> FilePool ] : k \in 0..MaxFiles }
    /\ sheet = Idle
    /\ hdr = Idle
    /\ mapped_cols = Idle
    /\ result = Idle
    /\ consolidated_df = Idle
    /\ input_df = Idle
    /\ merged = Idle
    /\ deviated_rows = Idle
    /\ total_deviated = Idle
    /\ file_idx = 0
    /\ outcomes = << >>

\* The script runs to its end once started.
SpecBatch == InitBatch /\ [][NextBatch]_vars /\ WF_vars(NextBatch)

\* What the script shows for `file` processed alone against `consolidated`.
Alone(file, consolidated) ==
    LET table == Standardized[file]
    IN  IF table = None THEN Undetected
        ELSE Report(Deviated(Merged(table, consolidated)),
                    TotalDeviated(Deviated(Merged(table, consolidated))))

\* The k-th outcome shown is that of the k-th file, alone.
OutcomesAreOwn ==
    \A k \in 1..Len(outcomes) :
        /\ k <= Len(invoice_files)
        /\ outcomes[k] = Alone(invoice_files[k], consolidated_df)

\* C7: with a consolidated table read, the script ends with one outcome per
\* invoice file - a report or the diagnostic - each the outcome of that file
\* processed alone against that table, whichever files went undetected.
C7_PerFileIsolation ==
    /\ [](consolidated_df.t = "DataFrame" => OutcomesAreOwn)
    /\ <>(pc = "done"
            /\ (consolidated_df.t = "DataFrame" =>
                    Len(outcomes) = Len(invoice_files) /\ OutcomesAreOwn))

\* An undetected file first, a reconciled file with deviations after it.
C7_Witness ==
    /\ pc = "done"
    /\ \E k \in 1..Len(outcomes) : \E j \in 1..(k - 1) :
          /\ outcomes[j] = Undetected
          /\ outcomes[k].t = "report"
          /\ outcomes[k].deviated_rows # << >>

====
